---- MODULE Spec2Model ----
(***************************************************************************)
(* Model of src/inline/whisper.py: the in-memory whisper store, the        *)
(* per-user view cooldown, creation through the inline query handler and   *)
(* the reveal (callback) handler with its suspension point at the user     *)
(* directory lookup.                                                       *)
(*                                                                         *)
(* Time is time.time() measured in ticks of 1/TicksPerSecond seconds, so   *)
(* that fractional elapsed times exist.  Handlers run atomically between   *)
(* the awaits that really suspend (asyncio is cooperative): the await of   *)
(* get_whisper_by_id does not suspend, the await of db.get_user does.      *)
(***************************************************************************)
EXTENDS Integers, Sequences, FiniteSets, TLC

\* ---------------------------------------------------------------- constants
WHISPER_EXPIRY_HOURS == 3
WHISPER_MAX_LENGTH == 1000
WHISPER_ALERT_MAX_LENGTH == 170
VIEW_COOLDOWN_SECONDS == 5
SecondsPerHour == 3600

\* ------------------------------------------------------------------- bounds
TicksPerSecond == 2
MaxAdvances == 2
MaxWhispers == 1
MaxCalls == 3
MaxPending == 1
MaxWindows == 1
MaxReveals == 2
MaxListed == 2
MaxQueryLen == 5
MaxTextLen == 3
MaxHandleLen == 2

ExpiryTicks == WHISPER_EXPIRY_HOURS * SecondsPerHour * TicksPerSecond
CooldownTicks == VIEW_COOLDOWN_SECONDS * TicksPerSecond

\* --------------------------------------------------------------- data types
\* Python None for an identity (Telegram ids are never 0).
None == 0
\* No whisper id (create_whisper returned None, or no id involved).
NoId == 0
\* User 1, user 2 and user 3: ids are only ever compared for equality.
UserIds == {1, 2, 3}

\* A string is a sequence of one-character strings; None and "" are both <<>>
\* (the code tests usernames by truthiness only).
NoName == <<>>
LowerChar(c) == CASE c = "B" -> "b" [] c = "E" -> "e" [] OTHER -> c
RECURSIVE Lower(_)
Lower(s) == IF s = <<>> THEN <<>> ELSE <<LowerChar(Head(s))>> \o Lower(Tail(s))

\* Recipient handles a sender may type, and usernames a requester may carry.
RecipientNames == {<<"B", "o", "b">>, <<"b", "o", "b">>}
UserNames == {<<"B", "o", "b">>, <<"E", "v", "e">>}
NamesOrNone == UserNames \cup {NoName}

\* A message text: its content and its length.
TextLens == {WHISPER_ALERT_MAX_LENGTH, WHISPER_ALERT_MAX_LENGTH + 1,
             WHISPER_MAX_LENGTH, WHISPER_MAX_LENGTH + 1}
Texts == {[body |-> "m", len |-> n] : n \in TextLens}
NoText == [body |-> "", len |-> 0]

\* Outcome of one directory lookup (db.get_user_by_username, bot.get_chat).
Raise == [kind |-> "raise", user_id |-> None, is_bot |-> FALSE]
Miss == [kind |-> "miss", user_id |-> None, is_bot |-> FALSE]
\* The directory knows every user as a human account, and user 1 also as a bot
\* account (is_bot is the directory's word, not a property of the id).
Found == {[kind |-> "found", user_id |-> u, is_bot |-> FALSE] : u \in UserIds}
         \cup {[kind |-> "found", user_id |-> 1, is_bot |-> TRUE]}
\* The lookups create_whisper makes, in order: the handle as typed, the handle
\* lower-cased, then bot.get_chat (which raises instead of missing).  A lookup
\* the code never reaches is left at Miss.
Lookups ==
    {[v1 |-> a, v2 |-> Miss, chat |-> Miss] : a \in Found \cup {Raise}}
    \cup {[v1 |-> Miss, v2 |-> a, chat |-> Miss] : a \in Found \cup {Raise}}
    \cup {[v1 |-> Miss, v2 |-> Miss, chat |-> a] : a \in Found \cup {Raise}}

VARIABLES
    bot,             \* the module global bot (FALSE: None)
    now,             \* time.time(), in ticks
    advances,        \* how often the clock has advanced
    issued,          \* how many uuids uuid4() has handed out
    calls,           \* how many reveal callbacks have arrived
    whispers_cache,  \* whisper id -> whisper
    view_cooldowns,  \* user id -> time of the last admitted view
    pending,         \* reveal handlers suspended at await db.get_user(user_id)
    last_admit,      \* history: user id -> time of the last admitted view, -1 if none
    out,             \* what the step just taken answered, and to which request
    query,           \* an inline query text, before it is parsed
    parsed           \* what parsing the query text gave, and who parsed it

vars == <<bot, now, advances, issued, calls, whispers_cache, view_cooldowns, pending, last_admit, out,
          query, parsed>>

\* ------------------------------------------------------------------ answers
Quiet == [op |-> "none", user |-> None, wid |-> NoId, uname |-> NoName,
          notice |-> "none", remaining |-> 0, text |-> NoText, sent_to |-> "none",
          counterpart |-> None, found |-> FALSE, dir |-> Miss, listed |-> <<>>,
          chat |-> FALSE]

Answer(op, user, wid, uname, notice, remaining, text, sent_to, counterpart, found, dir) ==
    [op |-> op, user |-> user, wid |-> wid, uname |-> uname, notice |-> notice,
     remaining |-> remaining, text |-> text, sent_to |-> sent_to,
     counterpart |-> counterpart, found |-> found, dir |-> dir, listed |-> <<>>,
     chat |-> FALSE]

NoWhisper == [sender_id |-> None, recipient_id |-> None, recipient_username |-> NoName,
              message_text |-> NoText, created_at |-> 0, expires_at |-> 0]

\* -------------------------------------------------------------------- store
\* A sweep that already drops an entry at expires_at.
CleanupExpiredAtExpiry(c, t) ==
    [id \in {i \in DOMAIN c : ~(c[i].expires_at <= t)} |-> c[id]]

\* _cleanup_expired_whispers: drop every entry with expires_at < current_time.
CleanupExpired(c, t) ==
    [id \in {i \in DOMAIN c : ~(c[i].expires_at < t)} |-> c[id]]

\* A lookup that hands the whisper out once and drops it from the store.
GetWhisperByIdConsuming(c, wid, t) ==
    LET swept == CleanupExpired(c, t) IN
    IF wid \notin DOMAIN swept \/ swept[wid].expires_at < t
    THEN [cache |-> [id \in DOMAIN swept \ {wid} |-> swept[id]],
          found |-> FALSE, whisper |-> NoWhisper]
    ELSE [cache |-> [id \in DOMAIN swept \ {wid} |-> swept[id]],
          found |-> TRUE, whisper |-> swept[wid]]

\* get_whisper_by_id: sweep, look the id up, evict it if expires_at < time.time().
GetWhisperById(c, wid, t) ==
    LET swept == CleanupExpired(c, t) IN
    IF wid \notin DOMAIN swept
    THEN [cache |-> swept, found |-> FALSE, whisper |-> NoWhisper]
    ELSE IF swept[wid].expires_at < t
    THEN [cache |-> [id \in DOMAIN swept \ {wid} |-> swept[id]],
          found |-> FALSE, whisper |-> NoWhisper]
    ELSE [cache |-> swept, found |-> TRUE, whisper |-> swept[wid]]

\* whispers_cache.items(): the ids in insertion order, which is the order the
\* ids were issued in.
RECURSIVE Items(_)
Items(S) ==
    IF S = {} THEN <<>>
    ELSE LET first == CHOOSE x \in S : \A y \in S : x <= y IN <<first>> \o Items(S \ {first})

\* One step of list.sort(key=created_at, reverse=True): x goes behind every
\* element that is as recent or more recent (the sort is stable).
RECURSIVE InsertByCreated(_, _)
InsertByCreated(x, sorted) ==
    IF sorted = <<>> THEN <<x>>
    ELSE IF Head(sorted).created_at >= x.created_at
         THEN <<Head(sorted)>> \o InsertByCreated(x, Tail(sorted))
         ELSE <<x>> \o sorted

RECURSIVE SortByCreated(_)
SortByCreated(list) ==
    IF list = <<>> THEN <<>>
    ELSE InsertByCreated(list[Len(list)], SortByCreated(SubSeq(list, 1, Len(list) - 1)))

\* {**whisper_data, 'whisper_id': whisper_id}
Entry(c, id) ==
    [whisper_id |-> id, sender_id |-> c[id].sender_id, recipient_id |-> c[id].recipient_id,
     recipient_username |-> c[id].recipient_username, message_text |-> c[id].message_text,
     created_at |-> c[id].created_at, expires_at |-> c[id].expires_at]

\* Line 185 alone would list a whisper for its recipient by id; this test
\* lists it for its sender too.
ListedForOrSender(w, user_id, username) ==
    \/ w.recipient_id = user_id
    \/ w.sender_id = user_id
    \/ w.recipient_id = None /\ username # NoName /\ w.recipient_username = Lower(username)

\* get_whispers_for_user, lines 185-188: the test that lists a whisper.
ListedFor(w, user_id, username) ==
    \/ w.recipient_id = user_id
    \/ w.recipient_id = None /\ username # NoName /\ w.recipient_username = Lower(username)

RECURSIVE Collect(_, _, _, _, _)
Collect(c, ids, user_id, username, t) ==
    IF ids = <<>> THEN <<>>
    ELSE LET id == Head(ids)
             rest == Collect(c, Tail(ids), user_id, username, t)
         IN IF ~(c[id].expires_at <= t) /\ ListedFor(c[id], user_id, username)
            THEN <<Entry(c, id)>> \o rest
            ELSE rest

\* get_whispers_for_user: sweep, collect, sort; the store after and the list.
GetWhispersForUser(c, user_id, username, t) ==
    LET swept == CleanupExpired(c, t) IN
    [cache |-> swept,
     list |-> SortByCreated(Collect(swept, Items(DOMAIN swept), user_id, username, t))]

\* A length check that already refuses a text of the maximal length.
TooLongAtLimit(text) == text.len >= WHISPER_MAX_LENGTH

\* len(message_text) > WHISPER_MAX_LENGTH
TooLong(text) == text.len > WHISPER_MAX_LENGTH

\* A resolution without the check at line 146 (recipient_id == sender_id).
ResolveRecipientAllowingSelf(sender_id, lk) ==
    IF lk.v1.kind = "raise" \/ (lk.v1.kind = "miss" /\ lk.v2.kind = "raise")
    THEN [refused |-> FALSE, recipient_id |-> None]
    ELSE LET user_data == IF lk.v1.kind = "found" THEN lk.v1 ELSE lk.v2 IN
         IF user_data.kind = "found"
         THEN [refused |-> user_data.is_bot, recipient_id |-> user_data.user_id]
         ELSE IF ~bot \/ lk.chat.kind # "found"
              THEN [refused |-> FALSE, recipient_id |-> None]
              ELSE [refused |-> lk.chat.is_bot,
                    recipient_id |-> IF lk.chat.is_bot THEN None ELSE lk.chat.user_id]

\* A resolution that gives the creation up when a lookup raises.
ResolveRecipientAbortingOnError(sender_id, lk) ==
    IF lk.v1.kind = "raise" \/ (lk.v1.kind = "miss" /\ lk.v2.kind = "raise")
    THEN [refused |-> TRUE, recipient_id |-> None]
    ELSE LET user_data == IF lk.v1.kind = "found" THEN lk.v1 ELSE lk.v2 IN
         IF user_data.kind = "found"
         THEN [refused |-> user_data.is_bot \/ user_data.user_id = sender_id,
               recipient_id |-> user_data.user_id]
         ELSE IF lk.chat.kind # "found"
              THEN [refused |-> bot, recipient_id |-> None]
              ELSE [refused |-> lk.chat.is_bot \/ lk.chat.user_id = sender_id,
                    recipient_id |-> IF lk.chat.is_bot THEN None ELSE lk.chat.user_id]

\* create_whisper, lines 118-150: resolve the recipient; refused when the
\* recipient is a bot or the sender.  Any exception leaves recipient_id None.
ResolveRecipient(sender_id, lk) ==
    IF lk.v1.kind = "raise" \/ (lk.v1.kind = "miss" /\ lk.v2.kind = "raise")
    THEN [refused |-> FALSE, recipient_id |-> None]
    ELSE LET user_data == IF lk.v1.kind = "found" THEN lk.v1 ELSE lk.v2 IN
         IF user_data.kind = "found"
         THEN IF user_data.is_bot
              THEN [refused |-> TRUE, recipient_id |-> user_data.user_id]
              ELSE [refused |-> user_data.user_id # None /\ user_data.user_id = sender_id,
                    recipient_id |-> user_data.user_id]
         ELSE IF ~bot
              THEN [refused |-> FALSE, recipient_id |-> None]
              ELSE IF lk.chat.kind # "found"
              THEN [refused |-> FALSE, recipient_id |-> None]
              ELSE IF lk.chat.is_bot
              THEN [refused |-> TRUE, recipient_id |-> None]
              ELSE [refused |-> lk.chat.user_id # None /\ lk.chat.user_id = sender_id,
                    recipient_id |-> lk.chat.user_id]

\* A creation that writes the entry before it has checked the recipient.
CreateWhisperStoringFirst(c, sender_id, recipient_username, message_text, lk, uuid, t) ==
    IF TooLong(message_text)
    THEN [ret |-> NoId, cache |-> c]
    ELSE LET r == ResolveRecipient(sender_id, lk) IN
         [ret |-> IF r.refused THEN NoId ELSE uuid,
          cache |-> [id \in DOMAIN c \cup {uuid} |->
              IF id = uuid
              THEN [sender_id |-> sender_id,
                    recipient_id |-> r.recipient_id,
                    recipient_username |-> Lower(recipient_username),
                    message_text |-> message_text,
                    created_at |-> t,
                    expires_at |-> t + ExpiryTicks]
              ELSE c[id]]]

\* A creation that stores every whisper under the same id.
CreateWhisperUnderOneId(c, sender_id, recipient_username, message_text, lk, uuid, t) ==
    IF TooLong(message_text)
    THEN [ret |-> NoId, cache |-> c]
    ELSE LET r == ResolveRecipient(sender_id, lk) IN
         IF r.refused
         THEN [ret |-> NoId, cache |-> c]
         ELSE [ret |-> 1,
               cache |-> [id \in DOMAIN c \cup {1} |->
                   IF id = 1
                   THEN [sender_id |-> sender_id,
                         recipient_id |-> r.recipient_id,
                         recipient_username |-> Lower(recipient_username),
                         message_text |-> message_text,
                         created_at |-> t,
                         expires_at |-> t + ExpiryTicks]
                   ELSE c[id]]]

\* create_whisper: returns the new id (NoId when refused) and the store after.
CreateWhisper(c, sender_id, recipient_username, message_text, lk, uuid, t) ==
    IF TooLong(message_text)
    THEN [ret |-> NoId, cache |-> c]
    ELSE LET r == ResolveRecipient(sender_id, lk) IN
         IF r.refused
         THEN [ret |-> NoId, cache |-> c]
         ELSE [ret |-> uuid,
               cache |-> [id \in DOMAIN c \cup {uuid} |->
                   IF id = uuid
                   THEN [sender_id |-> sender_id,
                         recipient_id |-> r.recipient_id,
                         recipient_username |-> Lower(recipient_username),
                         message_text |-> message_text,
                         created_at |-> t,
                         expires_at |-> t + ExpiryTicks]
                   ELSE c[id]]]

\* ------------------------------------------------------------------ parsing
\* str.strip(), str.lstrip() and str.rstrip(chars) on sequences of characters.
RECURSIVE LStrip(_)
LStrip(s) == IF s # <<>> /\ Head(s) = " " THEN LStrip(Tail(s)) ELSE s

RECURSIVE RStrip(_, _)
RStrip(s, chars) ==
    IF s # <<>> /\ s[Len(s)] \in chars THEN RStrip(SubSeq(s, 1, Len(s) - 1), chars) ELSE s

Strip(s) == LStrip(RStrip(s, {" "}))

\* s.startswith(prefix)
StartsWith(s, prefix) == Len(s) >= Len(prefix) /\ SubSeq(s, 1, Len(prefix)) = prefix

\* s[n:]
From(s, n) == SubSeq(s, n + 1, Len(s))

\* s.rfind('@') + 1: the position of the last marker, 0 if there is none.
RFind(s) ==
    IF \E i \in 1..Len(s) : s[i] = "@"
    THEN CHOOSE i \in 1..Len(s) : s[i] = "@" /\ \A j \in (i + 1)..Len(s) : s[j] # "@"
    ELSE 0

\* s.find('@') + 1: the position of the first marker, 0 if there is none.
Find(s) ==
    IF \E i \in 1..Len(s) : s[i] = "@"
    THEN CHOOSE i \in 1..Len(s) : s[i] = "@" /\ \A j \in 1..(i - 1) : s[j] # "@"
    ELSE 0

\* s.split()[0] for a stripped, non-empty s: the characters before the first blank.
RECURSIVE FirstWord(_)
FirstWord(s) == IF s = <<>> \/ Head(s) = " " THEN <<>> ELSE <<Head(s)>> \o FirstWord(Tail(s))

\* The characters of rstrip('.,!?;:').
Punctuation == {".", ",", "!", "?", ";", ":"}

NoParse == [ok |-> FALSE, text |-> <<>>, handle |-> <<>>]
Parsed(text, handle) == [ok |-> TRUE, text |-> text, handle |-> handle]

\* A prefix test that knows the self-mention only as it is written.
StripSelfMentionExactCase(q, bot_username) ==
    IF StartsWith(q, <<"@">> \o bot_username)
    THEN [ok |-> TRUE, remaining |-> Strip(From(q, Len(bot_username) + 1))]
    ELSE IF StartsWith(q, bot_username)
    THEN [ok |-> TRUE, remaining |-> Strip(From(q, Len(bot_username)))]
    ELSE [ok |-> FALSE, remaining |-> <<>>]

\* _parse_whisper_query, lines 60-77: the text behind the self-mention, q
\* being the stripped query.
StripSelfMention(q, bot_username) ==
    LET query_lower == Lower(q)
        bot_username_lower == Lower(bot_username)
        bot_mention_with_at == <<"@">> \o bot_username_lower
    IN
    IF StartsWith(query_lower, bot_mention_with_at)
    THEN IF StartsWith(q, <<"@">> \o bot_username)
         THEN [ok |-> TRUE, remaining |-> Strip(From(q, Len(<<"@">> \o bot_username)))]
         ELSE [ok |-> TRUE, remaining |-> Strip(From(q, Len(bot_mention_with_at)))]
    ELSE IF StartsWith(query_lower, bot_username_lower)
    THEN IF StartsWith(q, bot_username)
         THEN [ok |-> TRUE, remaining |-> Strip(From(q, Len(bot_username)))]
         ELSE [ok |-> TRUE, remaining |-> Strip(From(q, Len(bot_username_lower)))]
    ELSE [ok |-> FALSE, remaining |-> <<>>]

\* A split at the first marker instead of the last.
SplitAtFirstMarker(remaining) ==
    LET at == Find(remaining)
        recipient_part == Strip(From(remaining, at))
        recipient_username == RStrip(FirstWord(recipient_part), Punctuation)
        message_text == Strip(SubSeq(remaining, 1, at - 1))
    IN
    IF remaining = <<>> \/ at = 0 \/ recipient_part = <<>> \/ recipient_username = <<>>
       \/ message_text = <<>>
    THEN NoParse
    ELSE Parsed(message_text, recipient_username)

\* _parse_whisper_query, lines 79-106: split the remainder at the last marker.
SplitAtLastMarker(remaining) ==
    LET at == RFind(remaining)
        recipient_part == Strip(From(remaining, at))
        recipient_username == RStrip(FirstWord(recipient_part), Punctuation)
        message_text == Strip(SubSeq(remaining, 1, at - 1))
    IN
    IF remaining = <<>> THEN NoParse
    ELSE IF at = 0 THEN NoParse
    ELSE IF recipient_part = <<>> THEN NoParse
    ELSE IF recipient_username = <<>> THEN NoParse
    ELSE IF message_text = <<>> THEN NoParse
    ELSE Parsed(message_text, recipient_username)

\* _parse_whisper_query(query, bot_username)
ParseWhisperQuery(raw, bot_username) ==
    IF raw = <<>> THEN NoParse
    ELSE LET mention == StripSelfMention(Strip(raw), bot_username) IN
         IF ~mention.ok THEN NoParse ELSE SplitAtLastMarker(mention.remaining)

\* inline_query_handler, lines 243-258: the scan of the whole stripped query.
AdHocScan(raw) ==
    LET q == Strip(raw)
        at == RFind(q)
        message_part == Strip(SubSeq(q, 1, at - 1))
        recipient_part == Strip(From(q, at))
        recipient_username == RStrip(FirstWord(recipient_part), Punctuation)
    IN
    IF q = <<>> \/ at = 0 THEN NoParse
    ELSE IF ~(at - 1 > 0) THEN NoParse
    ELSE IF message_part = <<>> \/ recipient_part = <<>> THEN NoParse
    ELSE IF recipient_username = <<>> THEN NoParse
    ELSE Parsed(message_part, recipient_username)

\* A handler that asks the parser first and scans only if it found nothing.
HandlerParseParserFirst(raw, bot_username) ==
    LET by_parser == ParseWhisperQuery(Strip(raw), bot_username) IN
    IF by_parser.ok THEN by_parser ELSE AdHocScan(raw)

\* inline_query_handler, lines 243-261: the scan first, the parser if the
\* scan found nothing.
HandlerParse(raw, bot_username) ==
    LET scanned == AdHocScan(raw) IN
    IF scanned.ok THEN scanned ELSE ParseWhisperQuery(Strip(raw), bot_username)

\* The bot's username, as bot.get_me() gives it.
BotUsername == <<"B">>

\* Other usernames the bot may have.
SelfHandles == {BotUsername, <<"a">>, <<"B", "a">>, <<"a", "b">>}

\* The characters of a query: a letter, a letter in both cases, a blank, the
\* marker and a punctuation mark.
Alphabet == {"a", "B", "b", " ", "@", "."}
StringsUpTo(chars, n) == UNION {[1..k -> chars] : k \in 0..n}

\* The four ways to write the self-mention.
SelfMentions == {<<"@">> \o BotUsername, <<"@">> \o Lower(BotUsername),
                 BotUsername, Lower(BotUsername)}
\* Texts without marker and without blanks at their ends, handles without
\* blanks and without punctuation at their end.
MarkerFreeTexts ==
    {t \in StringsUpTo({"a", "B", " ", "."}, MaxTextLen) :
        t # <<>> /\ t[1] # " " /\ t[Len(t)] # " "}
Handles ==
    {h \in StringsUpTo({"a", "B", ".", "@"}, MaxHandleLen) :
        h # <<>> /\ h[Len(h)] \notin Punctuation}
Blanks == {<<>>, <<" ">>}

\* A query text, with what it was put together from if it was: any string, or
\* a self-mention, a text, a blank, the marker and a handle.
AnyQueries ==
    {[raw |-> r, built |-> FALSE, text |-> <<>>, handle |-> <<>>] :
        r \in StringsUpTo(Alphabet, MaxQueryLen)}
BuiltQueries ==
    {[raw |-> m \o b \o t \o <<" ", "@">> \o h, built |-> TRUE, text |-> t, handle |-> h] :
        m \in SelfMentions, b \in Blanks, t \in MarkerFreeTexts, h \in Handles}
NoQuery == [raw |-> <<>>, built |-> FALSE, text |-> <<>>, handle |-> <<>>]
Unparsed == [by |-> "none", result |-> NoParse]

\* ----------------------------------------------------------------- cooldown
\* A sweep that drops every record older than the call that runs it.
CleanupOldCooldownsEarly(v, t) ==
    [u \in {x \in DOMAIN v : ~(t - v[x] > 0)} |-> v[u]]

\* _cleanup_old_cooldowns: drop records older than twice the window.
CleanupOldCooldowns(v, t) ==
    [u \in {x \in DOMAIN v : ~(t - v[x] > VIEW_COOLDOWN_SECONDS * 2 * TicksPerSecond)} |-> v[u]]

\* int(VIEW_COOLDOWN_SECONDS - time_passed), time_passed in ticks: int() cuts
\* the fraction of a positive float.
RemainingSeconds(time_passed) == (CooldownTicks - time_passed) \div TicksPerSecond

\* A gate that stamps the time of a denied call too.
CheckViewCooldownRestamping(v, user_id, t) ==
    IF user_id \in DOMAIN v /\ t - v[user_id] < CooldownTicks
    THEN [can_view |-> FALSE, remaining |-> RemainingSeconds(t - v[user_id]),
          cooldowns |-> [v EXCEPT ![user_id] = t]]
    ELSE [can_view |-> TRUE, remaining |-> 0,
          cooldowns |-> CleanupOldCooldowns(
              [u \in DOMAIN v \cup {user_id} |-> IF u = user_id THEN t ELSE v[u]], t)]

\* A gate that admits without stamping.
CheckViewCooldownNoStamp(v, user_id, t) ==
    IF user_id \in DOMAIN v /\ t - v[user_id] < CooldownTicks
    THEN [can_view |-> FALSE, remaining |-> RemainingSeconds(t - v[user_id]), cooldowns |-> v]
    ELSE [can_view |-> TRUE, remaining |-> 0, cooldowns |-> CleanupOldCooldowns(v, t)]

\* check_view_cooldown: (can_view, remaining) and the cooldown table after.
CheckViewCooldown(v, user_id, t) ==
    IF user_id \in DOMAIN v /\ t - v[user_id] < CooldownTicks
    THEN [can_view |-> FALSE, remaining |-> RemainingSeconds(t - v[user_id]), cooldowns |-> v]
    ELSE [can_view |-> TRUE, remaining |-> 0,
          cooldowns |-> CleanupOldCooldowns(
              [u \in DOMAIN v \cup {user_id} |-> IF u = user_id THEN t ELSE v[u]], t)]

\* ------------------------------------------------------------------- reveal
\* A denial that names the sender.
DeniedNamingSender(op, w, wid, user_id, uname) ==
    Answer(op, user_id, wid, uname, "no_access", 0, NoText, "none", w.sender_id, TRUE, Miss)

\* Lines 550-555: the no-access alert.
Denied(op, w, wid, user_id, uname) ==
    Answer(op, user_id, wid, uname, "no_access", 0, NoText, "none", None, TRUE, Miss)

\* A presenter that answers a failed delivery like a refused reveal.
PresentFailureAsDenied(op, w, wid, user_id, uname, is_recipient, has_chat, send_ok) ==
    LET is_sender == w.sender_id = user_id
        counterpart == IF is_sender THEN None ELSE w.sender_id IN
    IF (~is_recipient /\ ~is_sender)
       \/ (w.message_text.len > WHISPER_ALERT_MAX_LENGTH /\ ~send_ok)
    THEN Denied(op, w, wid, user_id, uname)
    ELSE IF w.message_text.len <= WHISPER_ALERT_MAX_LENGTH
    THEN Answer(op, user_id, wid, uname, "alert", 0, w.message_text, "none", counterpart, TRUE, Miss)
    ELSE IF has_chat
    THEN [Answer(op, user_id, wid, uname, "sent_chat", 0, w.message_text, "chat", counterpart, TRUE, Miss)
            EXCEPT !.chat = has_chat]
    ELSE [Answer(op, user_id, wid, uname, "sent_pm", 0, w.message_text, "user", counterpart, TRUE, Miss)
            EXCEPT !.chat = has_chat]

\* A presenter that keeps the alert for texts shorter than the limit.
PresentAlertBelowLimit(op, w, wid, user_id, uname, is_recipient, has_chat, send_ok) ==
    LET is_sender == w.sender_id = user_id
        counterpart == IF is_sender THEN None ELSE w.sender_id IN
    IF ~is_recipient /\ ~is_sender
    THEN Denied(op, w, wid, user_id, uname)
    ELSE IF w.message_text.len < WHISPER_ALERT_MAX_LENGTH
    THEN Answer(op, user_id, wid, uname, "alert", 0, w.message_text, "none", counterpart, TRUE, Miss)
    ELSE IF ~send_ok
    THEN Answer(op, user_id, wid, uname, "send_failed", 0, NoText, "none", None, TRUE, Miss)
    ELSE IF has_chat
    THEN [Answer(op, user_id, wid, uname, "sent_chat", 0, w.message_text, "chat", counterpart, TRUE, Miss)
            EXCEPT !.chat = has_chat]
    ELSE [Answer(op, user_id, wid, uname, "sent_pm", 0, w.message_text, "user", counterpart, TRUE, Miss)
            EXCEPT !.chat = has_chat]

\* whisper_callback_handler, lines 548-629: the answer once is_recipient is
\* known.  send_ok: whether bot.send_message succeeds.  The answer's text is
\* the whisper's text where it is shown: in the alert (sent_to "none") or in
\* the message sent (sent_to "chat" or "user", the callback answer being a
\* fixed acknowledgement); chat records, for a message sent, whether
\* callback.message was there.
Present(op, w, wid, user_id, uname, is_recipient, has_chat, send_ok) ==
    LET is_sender == w.sender_id = user_id
        counterpart == IF is_sender THEN None ELSE w.sender_id IN
    IF ~is_recipient /\ ~is_sender
    THEN Denied(op, w, wid, user_id, uname)
    ELSE IF w.message_text.len <= WHISPER_ALERT_MAX_LENGTH
    THEN Answer(op, user_id, wid, uname, "alert", 0, w.message_text, "none", counterpart, TRUE, Miss)
    ELSE IF ~send_ok
    THEN Answer(op, user_id, wid, uname, "send_failed", 0, NoText, "none", None, TRUE, Miss)
    ELSE IF has_chat
    THEN [Answer(op, user_id, wid, uname, "sent_chat", 0, w.message_text, "chat", counterpart, TRUE, Miss)
            EXCEPT !.chat = has_chat]
    ELSE [Answer(op, user_id, wid, uname, "sent_pm", 0, w.message_text, "user", counterpart, TRUE, Miss)
            EXCEPT !.chat = has_chat]

\* The store looked up (and swept) before the gate has answered.
StoreSweptBeforeGate(can_view, c, wid, t) == GetWhisperById(c, wid, t).cache

\* Lines 509-517: the store as the handler leaves it once the gate has answered.
StoreAfterGate(can_view, c, wid, t) ==
    IF can_view THEN GetWhisperById(c, wid, t).cache ELSE c

\* A handle match that does not ask whether the recipient is still unresolved.
MatchRecipientAnyHandle(w, user_id, user_username) ==
    IF w.recipient_id = user_id
    THEN [is_recipient |-> TRUE, backfill |-> FALSE]
    ELSE IF w.recipient_username # NoName
            /\ user_username # NoName /\ w.recipient_username = Lower(user_username)
    THEN [is_recipient |-> TRUE, backfill |-> TRUE]
    ELSE [is_recipient |-> FALSE, backfill |-> FALSE]

\* Lines 530-546 with the requester's username at hand (callback.from_user.username
\* or the directory's answer): is_recipient, and the recipient_id to write.
MatchRecipient(w, user_id, user_username) ==
    IF w.recipient_id = user_id
    THEN [is_recipient |-> TRUE, backfill |-> FALSE]
    ELSE IF w.recipient_id = None /\ w.recipient_username # NoName
            /\ user_username # NoName /\ w.recipient_username = Lower(user_username)
    THEN [is_recipient |-> TRUE, backfill |-> TRUE]
    ELSE [is_recipient |-> FALSE, backfill |-> FALSE]

\* Whether the handler reaches await db.get_user(user_id) (line 538).
NeedsDirectory(w, user_id, uname) ==
    /\ w.recipient_id # user_id
    /\ w.recipient_id = None
    /\ w.recipient_username # NoName
    /\ uname = NoName

\* The write at line 546 left out.
BackfillDropped(c, wid, user_id) == c

\* Line 546: whisper['recipient_id'] = user_id, on the dict the handler holds.
Backfill(c, wid, user_id) ==
    IF wid \in DOMAIN c THEN [c EXCEPT ![wid].recipient_id = user_id] ELSE c

\* whisper_callback_handler from its start to its answer or to the suspension
\* at line 538: the store and the cooldown table after, and the answer.
WhisperCallback(c, v, wid, user_id, uname, has_chat, send_ok, t) ==
    LET gate == CheckViewCooldown(v, user_id, t)
        got == GetWhisperById(c, wid, t)
        store == StoreAfterGate(gate.can_view, c, wid, t)
        w == got.whisper
        m == MatchRecipient(w, user_id, uname)
    IN
    IF ~gate.can_view
    THEN [cache |-> store, cooldowns |-> gate.cooldowns, suspend |-> FALSE, whisper |-> NoWhisper,
          ans |-> Answer("callback", user_id, NoId, NoName, "cooldown", gate.remaining,
                         NoText, "none", None, FALSE, Miss)]
    ELSE IF ~got.found
    THEN [cache |-> store, cooldowns |-> gate.cooldowns, suspend |-> FALSE, whisper |-> NoWhisper,
          ans |-> Answer("callback", user_id, wid, NoName, "not_found", 0,
                         NoText, "none", None, FALSE, Miss)]
    ELSE IF NeedsDirectory(w, user_id, uname)
    THEN [cache |-> store, cooldowns |-> gate.cooldowns, suspend |-> TRUE, whisper |-> w,
          ans |-> Answer("callback", user_id, wid, uname, "suspended", 0,
                         NoText, "none", None, TRUE, Miss)]
    ELSE [cache |-> IF m.backfill THEN Backfill(store, wid, user_id) ELSE store,
          cooldowns |-> gate.cooldowns, suspend |-> FALSE, whisper |-> w,
          ans |-> Present("callback", w, wid, user_id, uname, m.is_recipient, has_chat, send_ok)]

\* The handler resumed after await db.get_user(user_id) with the directory's
\* username (NoName: no record, no username, or the lookup raised).  It holds
\* the whisper dict it read before suspending; the write at line 546 reaches
\* the store only if that dict is still in it.
ResumeCallback(c, p, dir_name, send_ok) ==
    LET m == MatchRecipient(p.whisper, p.user, dir_name) IN
    [cache |-> IF m.backfill THEN Backfill(c, p.wid, p.user) ELSE c,
     ans |-> Present("resume", p.whisper, p.wid, p.user, dir_name, m.is_recipient,
                     p.has_chat, send_ok)]

\* ------------------------------------------------------------------ actions
\* What the directory answered to create_whisper: the first lookup that did
\* not miss.
DirectoryAnswer(lk) ==
    IF lk.v1.kind # "miss" THEN lk.v1 ELSE IF lk.v2.kind # "miss" THEN lk.v2 ELSE lk.chat

\* How a long whisper's delivery goes: callback.message present and the send
\* succeeds, no callback.message and the send succeeds, or the send raises.
Deliveries == {[has_chat |-> TRUE, send_ok |-> TRUE], [has_chat |-> FALSE, send_ok |-> TRUE],
               [has_chat |-> FALSE, send_ok |-> FALSE]}

EmptyStore == [id \in {} |-> NoWhisper]
EmptyCooldowns == [u \in {} |-> 0]

\* The module globals after import, nothing asked yet.
InitGlobals ==
    /\ bot = FALSE
    /\ now = 0
    /\ advances = 0
    /\ issued = 0
    /\ calls = 0
    /\ whispers_cache = EmptyStore
    /\ view_cooldowns = EmptyCooldowns
    /\ pending = {}
    /\ last_admit = [u \in UserIds |-> -1]
    /\ out = Quiet

Init ==
    /\ InitGlobals
    /\ query = NoQuery
    /\ parsed = Unparsed

\* register_whisper_handlers: sets the global bot.
Register ==
    /\ out = Quiet
    /\ ~bot
    /\ bot' = TRUE
    /\ out' = Quiet
    /\ UNCHANGED <<now, advances, issued, calls, whispers_cache, view_cooldowns, pending, last_admit>>
    /\ UNCHANGED <<query, parsed>>

\* time.time() moves on, by one of the given steps.
TickOver(cap, Steps) ==
    /\ out = Quiet
    /\ advances < cap
    /\ \E d \in Steps : now' = now + d
    /\ advances' = advances + 1
    /\ out' = Quiet
    /\ UNCHANGED <<bot, issued, calls, whispers_cache, view_cooldowns, pending, last_admit>>
    /\ UNCHANGED <<query, parsed>>

\* cleanup_expired_whispers_task, called by the scheduler.
CleanupTask ==
    /\ out = Quiet
    /\ whispers_cache' = CleanupExpired(whispers_cache, now)
    /\ out' = Quiet
    /\ UNCHANGED <<bot, now, advances, issued, calls, view_cooldowns, pending, last_admit>>
    /\ UNCHANGED <<query, parsed>>

\* inline_query_handler with a query that parsed to (message_text,
\* recipient_username): lines 263-355, while fewer than cap whispers have been
\* created.  out.text is the text submitted,
\* out.dir what the directory answered (nothing is looked up for a text the
\* handler refuses at line 266), out.uname the handle as typed.
InlineQueryOver(cap, Senders, Names, Messages, Lks) ==
    /\ out = Quiet
    /\ bot
    /\ \E sender \in Senders, rname \in Names, text \in Messages, lk \in Lks :
        IF TooLong(text)
        THEN /\ out' = Answer("inline", sender, NoId, rname, "empty", 0, text, "none",
                              None, FALSE, Miss)
             /\ UNCHANGED <<issued, whispers_cache>>
        ELSE LET r == CreateWhisper(whispers_cache, sender, rname, text, lk, issued + 1, now) IN
             /\ r.ret # NoId => issued < cap
             /\ whispers_cache' = r.cache
             /\ issued' = IF r.ret # NoId THEN issued + 1 ELSE issued
             /\ out' = Answer("inline", sender, r.ret, rname,
                              IF r.ret # NoId THEN "offered" ELSE "error", 0, text, "none",
                              None, FALSE, DirectoryAnswer(lk))
    /\ UNCHANGED <<bot, now, advances, calls, view_cooldowns, pending, last_admit>>
    /\ UNCHANGED <<query, parsed>>

\* whisper_callback_handler, from the button press to its answer or to its
\* suspension at the directory lookup.
CallbackOver(cap, Users, Names, Dls) ==
    /\ out = Quiet
    /\ bot
    /\ calls < cap
    /\ \E user \in Users, wid \in 1..MaxWhispers, uname \in Names, dl \in Dls :
        \E r \in {WhisperCallback(whispers_cache, view_cooldowns, wid, user, uname,
                                  dl.has_chat, dl.send_ok, now)} :
        /\ r.suspend => Cardinality(pending) < MaxPending
        /\ whispers_cache' = r.cache
        /\ view_cooldowns' = r.cooldowns
        /\ pending' = IF r.suspend
                      THEN pending \cup {[user |-> user, wid |-> wid, has_chat |-> dl.has_chat,
                                          whisper |-> r.whisper]}
                      ELSE pending
        /\ last_admit' = IF r.ans.notice # "cooldown"
                         THEN [last_admit EXCEPT ![user] = now] ELSE last_admit
        /\ out' = r.ans
    /\ calls' = calls + 1
    /\ UNCHANGED <<bot, now, advances, issued>>
    /\ UNCHANGED <<query, parsed>>

\* inline_query_handler with a query that is just the bot's mention (line
\* 382): lines 415-484, the requester's whispers listed.  uname is the
\* username the handler ends up with (the requester's own or the directory's).
ListOver(Users, Names) ==
    /\ out = Quiet
    /\ bot
    /\ \E user \in Users, uname \in Names :
        \E r \in {GetWhispersForUser(whispers_cache, user, uname, now)} :
        /\ whispers_cache' = r.cache
        /\ out' = [Answer("list", user, NoId, uname, "listed", 0, NoText, "none",
                           None, FALSE, Miss) EXCEPT !.listed = r.list]
    /\ UNCHANGED <<bot, now, advances, issued, calls, view_cooldowns, pending, last_admit>>
    /\ UNCHANGED <<query, parsed>>

\* A suspended handler resumes with the directory's answer and finishes.
Resume ==
    /\ out = Quiet
    /\ \E p \in pending, dir_name \in NamesOrNone, send_ok \in BOOLEAN :
        \E r \in {ResumeCallback(whispers_cache, p, dir_name, send_ok)} :
        /\ whispers_cache' = r.cache
        /\ pending' = pending \ {p}
        /\ out' = r.ans
    /\ UNCHANGED <<bot, now, advances, issued, calls, view_cooldowns, last_admit>>
    /\ UNCHANGED <<query, parsed>>

\* The answer of the step before has gone out (inline_query.answer,
\* callback.answer): `out` only observes one step, so each step starts from a
\* settled answer and nothing of the program's state changes here.
Answered ==
    /\ out # Quiet
    /\ out' = Quiet
    /\ UNCHANGED <<bot, now, advances, issued, calls, whispers_cache, view_cooldowns, pending, last_admit>>
    /\ UNCHANGED <<query, parsed>>

\* Ids are only ever compared for equality: user 1 sends, user 2 is the
\* recipient the directory may resolve the handle to, user 3 is a stranger.
Bob == <<"B", "o", "b">>
Unresolved == [v1 |-> Miss, v2 |-> Miss, chat |-> Raise]
ResolvedTo(u) == [v1 |-> [kind |-> "found", user_id |-> u, is_bot |-> FALSE], v2 |-> Miss, chat |-> Miss]
ShortText == [body |-> "m", len |-> WHISPER_ALERT_MAX_LENGTH]
LongText == [body |-> "m", len |-> WHISPER_ALERT_MAX_LENGTH + 1]

\* ------------------------------------------------------------ specifications
\* Expiry and cooldown: one kind of whisper (short, recipient unresolved), the
\* sender and another user pressing the button under the recipient's handle or
\* under another one, the clock advancing by one tick,
\* by just under the cooldown window, or by the whole lifetime of a whisper.
ClockSteps == {1, CooldownTicks - 1, ExpiryTicks}
Tick == TickOver(MaxAdvances, ClockSteps)
TheSender == {1}
TheHandle == {Bob}
ShortTexts == {ShortText}
UnresolvedOnly == {Unresolved}
TimedUsers == {1, 3}
SentToUser == {[has_chat |-> FALSE, send_ok |-> TRUE]}
InlineQueryOne == InlineQueryOver(MaxWhispers, TheSender, TheHandle, ShortTexts, UnresolvedOnly)
CallbackTimed == CallbackOver(MaxCalls, TimedUsers, UserNames, SentToUser)

Next ==
    \/ Answered
    \/ Register
    \/ Tick
    \/ CleanupTask
    \/ InlineQueryOne
    \/ CallbackTimed

Spec == Init /\ [][Next]_vars

\* Access to one whisper: short or long, unresolved or resolved to user 2, every user
\* pressing the button with every username or none, every delivery outcome;
\* the clock advances by the cooldown window.
WindowSteps == {CooldownTicks}
ShortAndLong == {ShortText, LongText}
UnresolvedOrRecipient == {Unresolved, ResolvedTo(2)}
TickWindow == TickOver(MaxWindows, WindowSteps)
InlineQueryFew == InlineQueryOver(MaxWhispers, TheSender, TheHandle, ShortAndLong, UnresolvedOrRecipient)
Callback == CallbackOver(MaxReveals, UserIds, NamesOrNone, Deliveries)

NextAccess ==
    \/ Answered
    \/ Register
    \/ TickWindow
    \/ InlineQueryFew
    \/ Callback
    \/ Resume

SpecAccess == Init /\ [][NextAccess]_vars

\* Creation: every sender, handle, text and directory outcome; a stranger
\* carrying the handle presses the button, so that the cooldown table is not
\* always empty.
InlineQuery == InlineQueryOver(MaxWhispers, UserIds, RecipientNames, Texts, Lookups)
Strangers == {3}
CallbackByStranger == CallbackOver(MaxReveals, Strangers, TheHandle, SentToUser)

NextCreate ==
    \/ Answered
    \/ Register
    \/ CleanupTask
    \/ InlineQuery
    \/ CallbackByStranger

SpecCreate == Init /\ [][NextCreate]_vars

\* Listing: up to MaxListed short whispers from two senders, unresolved or
\* resolved to user 2, created at different times; every user asks for their
\* list under every username or none; the clock advances by one tick or by
\* the lifetime of a whisper.
ListSenders == {1, 3}
ListSteps == {1, ExpiryTicks}
TickList == TickOver(MaxAdvances, ListSteps)
InlineQueryList == InlineQueryOver(MaxListed, ListSenders, TheHandle, ShortTexts, UnresolvedOrRecipient)
List == ListOver(UserIds, NamesOrNone)

NextList ==
    \/ Answered
    \/ Register
    \/ TickList
    \/ InlineQueryList
    \/ List

SpecList == Init /\ [][NextList]_vars

\* The store over its life: up to MaxListed whispers of the sender, short, of
\* the maximal length or longer, unresolved or resolved to user 2, created at
\* different times; the sender and a stranger press the first one's button
\* carrying the handle; the stranger asks for the list, the scheduler sweeps,
\* the clock advances by one tick or to just past the lifetime of a whisper.
StoreTexts == {ShortText, [body |-> "m", len |-> WHISPER_MAX_LENGTH],
               [body |-> "m", len |-> WHISPER_MAX_LENGTH + 1]}
InlineQueryStore == InlineQueryOver(MaxListed, TheSender, TheHandle, StoreTexts, UnresolvedOrRecipient)
CallbackStore == CallbackOver(MaxReveals, TimedUsers, TheHandle, SentToUser)
ListStore == ListOver(Strangers, TheHandle)
StoreSteps == {1, ExpiryTicks + 1}
TickStore == TickOver(MaxWindows, StoreSteps)

NextStore ==
    \/ Answered
    \/ Register
    \/ TickStore
    \/ CleanupTask
    \/ InlineQueryStore
    \/ CallbackStore
    \/ ListStore

SpecStore == Init /\ [][NextStore]_vars

\* Parsing: a query text, any string or one put together from its parts, is
\* parsed by _parse_whisper_query, by the handler's scan, or by the handler
\* (the scan, then the parser).
InitParse ==
    /\ InitGlobals
    /\ query \in AnyQueries \cup BuiltQueries
    /\ parsed = Unparsed

Parse ==
    /\ parsed = Unparsed
    /\ parsed' = [by |-> "parser", result |-> ParseWhisperQuery(query.raw, BotUsername)]
    /\ UNCHANGED <<bot, now, advances, issued, calls, whispers_cache, view_cooldowns, pending,
                   last_admit, out, query>>

Scan ==
    /\ parsed = Unparsed
    /\ parsed' = [by |-> "scan", result |-> AdHocScan(query.raw)]
    /\ UNCHANGED <<bot, now, advances, issued, calls, whispers_cache, view_cooldowns, pending,
                   last_admit, out, query>>

ParseInHandler ==
    /\ parsed = Unparsed
    /\ parsed' = [by |-> "handler", result |-> HandlerParse(query.raw, BotUsername)]
    /\ UNCHANGED <<bot, now, advances, issued, calls, whispers_cache, view_cooldowns, pending,
                   last_admit, out, query>>

NextParse ==
    \/ Parse
    \/ Scan
    \/ ParseInHandler

SpecParse == InitParse /\ [][NextParse]_vars

\* ------------------------------------------------------------------- claims
\* Who may read a whisper, as the handler saw it: the sender, the recipient by
\* id, or, while recipient_id is None, whoever carries the stored handle.
MayRead(w, user, name) ==
    \/ w.sender_id = user
    \/ w.recipient_id = user
    \/ w.recipient_id = None /\ name # NoName /\ Lower(name) = w.recipient_username

ReadNotices == {"alert", "sent_chat", "sent_pm", "send_failed"}

\* What the requester sees of an answer.
Visible(a) == [notice |-> a.notice, remaining |-> a.remaining, text |-> a.text,
               sent_to |-> a.sent_to, counterpart |-> a.counterpart]
NoAccessNotice == [notice |-> "no_access", remaining |-> 0, text |-> NoText,
                   sent_to |-> "none", counterpart |-> None]
NotFoundNotice == [notice |-> "not_found", remaining |-> 0, text |-> NoText,
                   sent_to |-> "none", counterpart |-> None]

AdmittedNow(user) == CheckViewCooldown(view_cooldowns, user, now).can_view
Live(wid) == wid \in DOMAIN whispers_cache /\ ~(whispers_cache[wid].expires_at < now)
AnswerTo(wid, user, uname) ==
    Visible(WhisperCallback(whispers_cache, view_cooldowns, wid, user, uname, FALSE, TRUE, now).ans)

\* C4 as claimed: an admitted requester who may not read a live whisper gets
\* the answer an id that is not in the store gets.
C4_SameAsNotInStore ==
    \A user \in UserIds, uname \in UserNames, wid \in 1..MaxWhispers, other \in 1..(MaxWhispers + 1) :
        (/\ AdmittedNow(user) /\ Live(wid) /\ other \notin DOMAIN whispers_cache
         /\ ~MayRead(whispers_cache[wid], user, uname)) =>
            AnswerTo(wid, user, uname) = AnswerTo(other, user, uname)

\* C4 amended: an admitted requester who may not read a live whisper gets the
\* no-access notice, the same whatever the whisper holds and without its text
\* or sender; an id that is not in the store gets the not-found notice, which
\* differs from it.
C4_GenericNoAccess ==
    [][/\ NoAccessNotice # NotFoundNotice
       /\ (out'.op = "callback" /\ out'.notice \notin {"cooldown", "suspended"}) =>
            IF out'.wid \in DOMAIN whispers_cache /\ ~(whispers_cache[out'.wid].expires_at < now)
            THEN ~MayRead(whispers_cache[out'.wid], out'.user, out'.uname) =>
                    Visible(out') = NoAccessNotice
            ELSE Visible(out') = NotFoundNotice
       /\ out'.op = "resume" =>
            \A p \in pending \ pending' :
                ~MayRead(p.whisper, p.user, out'.uname) => Visible(out') = NoAccessNotice
      ]_vars

\* A requester has just been refused a whisper that is in the store.
C4_Witness ==
    /\ out.op = "callback" /\ out.notice = "no_access"
    /\ out.wid \in DOMAIN whispers_cache
    /\ whispers_cache[out.wid].sender_id # out.user
    /\ whispers_cache[out.wid].recipient_id # out.user

\* C3 as claimed: a whisper created at t0 is returned by every read before
\* t0 + 3h and by no read from t0 + 3h on.
C3_AbsentFromExpiry ==
    [][(out'.op = "callback" /\ out'.notice # "cooldown" /\ out'.wid \in DOMAIN whispers_cache) =>
            (out'.found <=> now < whispers_cache[out'.wid].created_at + ExpiryTicks)
      ]_vars

\* C3 amended: a whisper is created with created_at = now, no step removes it
\* while the time is at most created_at + 3h, a read at a time t <= t0 + 3h
\* returns it and a read at a time t > t0 + 3h does not and leaves no expired
\* entry in the store.
C3_ExpiresAfter ==
    [][/\ (out'.op = "callback" /\ out'.notice # "cooldown") =>
            /\ out'.found <=> /\ out'.wid \in DOMAIN whispers_cache
                              /\ now <= whispers_cache[out'.wid].created_at + ExpiryTicks
            /\ \A id \in DOMAIN whispers_cache' :
                   now <= whispers_cache'[id].created_at + ExpiryTicks
       /\ \A id \in DOMAIN whispers_cache :
            now' <= whispers_cache[id].created_at + ExpiryTicks =>
                /\ id \in DOMAIN whispers_cache'
                /\ whispers_cache'[id].created_at = whispers_cache[id].created_at
       /\ \A id \in DOMAIN whispers_cache' \ DOMAIN whispers_cache :
            whispers_cache'[id].created_at = now
      ]_vars

\* A read exactly three hours after creation has just returned the whisper.
C3_Witness ==
    /\ out.op = "callback" /\ out.found
    /\ out.wid \in DOMAIN whispers_cache
    /\ now = whispers_cache[out.wid].created_at + ExpiryTicks

\* Ceiling of (CooldownTicks - elapsed) ticks, in seconds.
CeilRemaining(elapsed) == (CooldownTicks - elapsed + TicksPerSecond - 1) \div TicksPerSecond

\* C5: a call inside the window is denied with remainingSeconds in 1..5, the
\* ceiling of the time left.
C5_RemainingIsCeiling ==
    (out.op = "callback" /\ out.notice = "cooldown") =>
        /\ out.user \in DOMAIN view_cooldowns
        /\ now - view_cooldowns[out.user] < CooldownTicks
        /\ out.remaining \in 1..VIEW_COOLDOWN_SECONDS
        /\ out.remaining = CeilRemaining(now - view_cooldowns[out.user])

\* C6: a denied call leaves the cooldown table as it was, and a call made five
\* seconds or more after the user's last admitted call is admitted.
C6_DenialKeepsStamp ==
    [][out'.op = "callback" =>
        /\ out'.notice = "cooldown" => view_cooldowns' = view_cooldowns
        /\ (last_admit[out'.user] >= 0 /\ now - last_admit[out'.user] >= CooldownTicks) =>
                out'.notice # "cooldown"
      ]_vars

\* User 3 made three calls in five seconds, user 1 none: the first at time 0
\* was admitted, the second was denied, and the third, exactly five seconds
\* after the first, has just been admitted.
C6_Witness ==
    /\ out.op = "callback" /\ out.notice # "cooldown" /\ out.user = 3
    /\ calls = 3 /\ last_admit[1] = -1 /\ now = CooldownTicks

\* C7: every admitted reveal, however it ends, stamps the requester's cooldown
\* record with the time of the call; the record stays while the window lasts,
\* and a reveal by the same user less than five seconds after an admitted one
\* is rate-limited.
C7_GateComesFirst ==
    [][/\ (out'.op = "callback" /\ out'.notice # "cooldown") =>
            /\ out'.user \in DOMAIN view_cooldowns'
            /\ view_cooldowns'[out'.user] = now
       /\ (out'.op = "callback" /\ last_admit[out'.user] >= 0
             /\ now - last_admit[out'.user] < CooldownTicks) =>
            out'.notice = "cooldown"
       /\ \A u \in DOMAIN view_cooldowns :
            now' - view_cooldowns[u] < CooldownTicks => u \in DOMAIN view_cooldowns'
      ]_vars

\* No whisper was ever created, so the user's earlier reveal ended not-found;
\* the reveal just made inside the window is rate-limited.
C7_Witness ==
    /\ out.op = "callback" /\ out.notice = "cooldown"
    /\ issued = 0
    /\ now > last_admit[out.user]

\* C8: a rate-limited reveal leaves the store as it was (nothing swept or
\* evicted, no recipient_id written) and suspends nothing.
C8_RateLimitedKeepsStore ==
    [][(out'.op = "callback" /\ out'.notice = "cooldown") =>
            /\ whispers_cache' = whispers_cache
            /\ pending' = pending
      ]_vars

\* A reveal has just been rate-limited while an expired, unresolved whisper
\* whose handle the requester carries is still in the store.
C8_Witness ==
    /\ out.op = "callback" /\ out.notice = "cooldown" /\ out.user # 1
    /\ \E id \in DOMAIN whispers_cache :
        /\ whispers_cache[id].expires_at < now
        /\ whispers_cache[id].recipient_id = None

\* C9: a creation whose recipient the directory resolves to the sender is
\* refused: no id is returned and nothing is stored.
C9_SelfAddressedRefused ==
    [][(out'.op = "inline" /\ out'.dir.kind = "found" /\ out'.dir.user_id = out'.user) =>
            /\ out'.wid = NoId
            /\ out'.notice = "error"
            /\ whispers_cache' = whispers_cache
            /\ issued' = issued
      ]_vars

\* A creation addressed to the sender's own human account has just been refused.
C9_Witness ==
    /\ out.op = "inline" /\ out.notice = "error"
    /\ out.dir.kind = "found" /\ out.dir.user_id = out.user /\ ~out.dir.is_bot

\* C10 as claimed: a text of length 1001 is always refused and a text of
\* length 1000 is always stored, whatever the directory answers.
C10_LimitAlwaysStored ==
    out.op = "inline" =>
        /\ out.text.len = WHISPER_MAX_LENGTH + 1 => out.wid = NoId
        /\ out.text.len = WHISPER_MAX_LENGTH =>
                out.wid # NoId /\ out.wid \in DOMAIN whispers_cache

\* Whether the directory resolved the handle to a bot or to the sender.
RefusedRecipient(a) == a.dir.kind = "found" /\ (a.dir.is_bot \/ a.dir.user_id = a.user)

\* C10 amended: a text of length 1001 is always refused and stores nothing; a
\* text of length 1000 is stored under a new id unless the directory resolves
\* the recipient to a bot account or to the sender, and is refused then.
C10_LimitStoredUnlessRefused ==
    [][out'.op = "inline" =>
        /\ out'.text.len = WHISPER_MAX_LENGTH + 1 =>
                out'.wid = NoId /\ whispers_cache' = whispers_cache
        /\ out'.text.len = WHISPER_MAX_LENGTH =>
                IF RefusedRecipient(out')
                THEN out'.wid = NoId /\ whispers_cache' = whispers_cache
                ELSE /\ out'.wid # NoId
                     /\ out'.wid \notin DOMAIN whispers_cache
                     /\ out'.wid \in DOMAIN whispers_cache'
                     /\ whispers_cache'[out'.wid].message_text = out'.text
      ]_vars

\* A text of exactly the maximal length has just been stored.
C10_Witness ==
    /\ out.op = "inline" /\ out.text.len = WHISPER_MAX_LENGTH
    /\ out.wid \in DOMAIN whispers_cache
    /\ whispers_cache[out.wid].message_text.len = WHISPER_MAX_LENGTH

\* C11: a creation refused for a text longer than the maximum, for a recipient
\* resolving to the sender or for one resolving to a bot account returns no id
\* and leaves the store, the cooldown table and the suspended handlers as
\* they were.
C11_RefusalChangesNothing ==
    [][out'.op = "inline" =>
        /\ (TooLong(out'.text) \/ RefusedRecipient(out')) => out'.wid = NoId
        /\ out'.wid = NoId =>
            /\ whispers_cache' = whispers_cache
            /\ view_cooldowns' = view_cooldowns
            /\ pending' = pending
            /\ issued' = issued
      ]_vars

\* A creation has just been refused for its recipient while the store holds a
\* whisper and the cooldown table a record.
C11_Witness ==
    /\ out.op = "inline" /\ out.wid = NoId /\ RefusedRecipient(out)
    /\ DOMAIN whispers_cache # {}
    /\ DOMAIN view_cooldowns # {}

\* C12: when no lookup finds the handle (both directory lookups miss and
\* bot.get_chat raises, or a directory lookup raises), a creation with a text
\* of admissible length returns a new id and stores one complete entry under
\* it, with recipient_id None and the lower-cased handle, and changes no
\* other entry.
C12_UnresolvedStillCreated ==
    [][(out'.op = "inline" /\ ~TooLong(out'.text) /\ out'.dir.kind = "raise") =>
            /\ out'.wid # NoId
            /\ out'.wid \notin DOMAIN whispers_cache
            /\ DOMAIN whispers_cache' = DOMAIN whispers_cache \cup {out'.wid}
            /\ \A id \in DOMAIN whispers_cache : whispers_cache'[id] = whispers_cache[id]
            /\ whispers_cache'[out'.wid] =
                    [sender_id |-> out'.user,
                     recipient_id |-> None,
                     recipient_username |-> Lower(out'.uname),
                     message_text |-> out'.text,
                     created_at |-> now,
                     expires_at |-> now + ExpiryTicks]
      ]_vars

\* A whisper typed for "Bob" has just been stored after a lookup raised:
\* unresolved, under the handle "bob".
C12_Witness ==
    /\ out.op = "inline" /\ out.dir.kind = "raise"
    /\ out.wid \in DOMAIN whispers_cache
    /\ whispers_cache[out.wid].recipient_id = None
    /\ out.uname # whispers_cache[out.wid].recipient_username
    /\ Lower(out.uname) = whispers_cache[out.wid].recipient_username

\* C13: an admitted reveal of a whisper that has not expired, by its sender or
\* by the recipient its recipient_id names, shows the stored text (unless the
\* delivery fails) and leaves the whisper in the store; no step changes the
\* text, the sender or the expiry of a stored whisper.  So every such reveal
\* shows the text the whisper was created with.
C13_ReadKeepsWhisper ==
    [][/\ (/\ out'.op = "callback" /\ out'.notice # "cooldown"
           /\ out'.wid \in DOMAIN whispers_cache
           /\ now <= whispers_cache[out'.wid].expires_at
           /\ out'.user \in {whispers_cache[out'.wid].sender_id,
                              whispers_cache[out'.wid].recipient_id}) =>
            /\ out'.notice \in ReadNotices
            /\ out'.notice # "send_failed" => out'.text = whispers_cache[out'.wid].message_text
            /\ out'.wid \in DOMAIN whispers_cache'
       /\ \A id \in DOMAIN whispers_cache \cap DOMAIN whispers_cache' :
            /\ whispers_cache'[id].message_text = whispers_cache[id].message_text
            /\ whispers_cache'[id].sender_id = whispers_cache[id].sender_id
            /\ whispers_cache'[id].expires_at = whispers_cache[id].expires_at
      ]_vars

\* User 3 reads the text again, this time under another handle: recipient_id
\* names user 3 only because an earlier reveal by user 3 under the stored
\* handle was shown the text.
C13_Witness ==
    /\ out.op = "callback" /\ out.user = 3 /\ out.uname = <<"E", "v", "e">>
    /\ out.wid \in DOMAIN whispers_cache
    /\ whispers_cache[out.wid].recipient_id = 3
    /\ out.text # NoText
    /\ out.text = whispers_cache[out.wid].message_text

\* The ids a list names.
ListedIds(list) == {list[i].whisper_id : i \in 1..Len(list)}

Revealed(a) ==
    IF a.op = "resume"
    THEN (CHOOSE p \in pending : p \notin pending' /\ p.wid = a.wid /\ p.user = a.user).whisper
    ELSE whispers_cache[a.wid]

\* C15: an authorized reveal answers with the alert, which carries the text,
\* exactly when the text is at most 170 long, and otherwise delivers the text
\* in a message, to the chat of the reveal if there is one and to the
\* requester if not, or reports that the delivery failed; a delivery is never
\* accompanied by an alert carrying the text.
C15_AlertOrDelivery ==
    [][(out'.op \in {"callback", "resume"} /\ out'.notice \in ReadNotices) =>
        LET text == Revealed(out').message_text IN
        /\ out'.notice = "alert" <=> text.len <= WHISPER_ALERT_MAX_LENGTH
        /\ out'.notice \in {"sent_chat", "sent_pm", "send_failed"} <=>
                text.len > WHISPER_ALERT_MAX_LENGTH
        /\ out'.notice = "alert" => out'.sent_to = "none" /\ out'.text = text
        /\ out'.notice = "sent_chat" => out'.sent_to = "chat" /\ out'.text = text /\ out'.chat
        /\ out'.notice = "sent_pm" => out'.sent_to = "user" /\ out'.text = text /\ ~out'.chat
        /\ out'.notice = "send_failed" => out'.sent_to = "none" /\ out'.text = NoText
      ]_vars

\* A text of length 171 has just been delivered to the chat of the reveal.
C15_Witness ==
    /\ out.op = "callback" /\ out.notice = "sent_chat" /\ out.sent_to = "chat"
    /\ out.text.len = WHISPER_ALERT_MAX_LENGTH + 1

SendFailedNotice == [notice |-> "send_failed", remaining |-> 0, text |-> NoText,
                     sent_to |-> "none", counterpart |-> None]

\* C16: a reveal whose delivery fails is answered with the delivery-failure
\* notice, which is neither the no-access nor the not-found notice; the
\* whisper is then still in the store with its text, and its sender_id or
\* recipient_id names the requester; and an admitted reveal of a stored
\* whisper by the user its sender_id or recipient_id names, once answered, is
\* never refused.
C16_FailedDeliveryKeepsWhisper ==
    [][/\ SendFailedNotice \notin {NoAccessNotice, NotFoundNotice}
       /\ (out'.op \in {"callback", "resume"} /\ out'.notice = "send_failed") =>
            /\ Visible(out') = SendFailedNotice
            /\ out'.wid \in DOMAIN whispers_cache'
            /\ whispers_cache'[out'.wid].message_text = Revealed(out').message_text
            /\ out'.user \in {whispers_cache'[out'.wid].sender_id,
                               whispers_cache'[out'.wid].recipient_id}
       /\ (/\ out'.op = "callback" /\ out'.notice \notin {"cooldown", "suspended"}
           /\ out'.wid \in DOMAIN whispers_cache
           /\ out'.user \in {whispers_cache[out'.wid].sender_id,
                              whispers_cache[out'.wid].recipient_id}) =>
            out'.notice \in ReadNotices
       /\ (out'.op = "resume" /\ out'.user = Revealed(out').sender_id) =>
            out'.notice \in ReadNotices
      ]_vars

\* The delivery of a long whisper to its recipient has just failed; the
\* whisper is in the store, long as before.
C16_Witness ==
    /\ out.op = "callback" /\ out.notice = "send_failed"
    /\ out.wid \in DOMAIN whispers_cache
    /\ whispers_cache[out.wid].recipient_id = out.user
    /\ whispers_cache[out.wid].message_text.len > WHISPER_ALERT_MAX_LENGTH

\* C17: for every non-empty trimmed text T without marker and every handle H
\* without whitespace and without trailing punctuation, parsing a self-mention
\* (in any of its four forms) followed by T, a blank, the marker and H gives
\* (T, H).
C17_RoundTripAnyHandle ==
    (parsed.by = "parser" /\ query.built) => parsed.result = Parsed(query.text, query.handle)

HasMarker(s) == \E i \in 1..Len(s) : s[i] = "@"

\* C17, amended: the same, for every such handle H that holds no marker.
C17_RoundTripMarkerFreeHandle ==
    (parsed.by = "parser" /\ query.built /\ ~HasMarker(query.handle))
        => parsed.result = Parsed(query.text, query.handle)

\* A lower-cased self-mention with the marker, a text of two words and a
\* handle in upper case came back as they went in.
C17_Witness ==
    /\ parsed.by = "parser"
    /\ query.built
    /\ StartsWith(query.raw, <<"@">> \o Lower(BotUsername))
    /\ query.text = <<"a", " ", "B">>
    /\ query.handle = <<"B", "a">>
    /\ parsed.result = Parsed(query.text, query.handle)

\* The position of the last marker of s, if s holds one.
IsLastMarker(s, i) == s[i] = "@" /\ \A j \in (i + 1)..Len(s) : s[j] # "@"

\* s without the blanks at its ends.
Trimmed(s) ==
    LET inner == {i \in 1..Len(s) : s[i] # " "} IN
    IF inner = {} THEN <<>>
    ELSE SubSeq(s, CHOOSE i \in inner : \A j \in inner : i <= j,
                   CHOOSE i \in inner : \A j \in inner : i >= j)

\* The first token of s, without the punctuation at its end.
FirstToken(s) ==
    LET t == Trimmed(s)
        blanks == {i \in 1..Len(t) : t[i] = " "}
        word == IF blanks = {} THEN t
                ELSE SubSeq(t, 1, (CHOOSE i \in blanks : \A j \in blanks : i <= j) - 1)
        kept == {i \in 1..Len(word) : word[i] \notin Punctuation}
    IN
    IF kept = {} THEN <<>> ELSE SubSeq(word, 1, CHOOSE i \in kept : \A j \in kept : i >= j)

\* What a split of s at its last marker has to give.
SplitAsClaimed(s, result) ==
    \A i \in 1..Len(s) :
        IsLastMarker(s, i) =>
            LET text == Trimmed(SubSeq(s, 1, i - 1))
                handle == FirstToken(SubSeq(s, i + 1, Len(s)))
            IN
            result = IF text = <<>> \/ handle = <<>> THEN NoParse ELSE Parsed(text, handle)

\* C18: the split is at the last marker only: the handle is the first token
\* behind the last marker without its trailing punctuation, the text is all
\* that stands before that marker, trimmed, and the result is NONE whenever
\* the text or the handle is empty; for the parser on what follows the
\* self-mention and for the handler's scan on the whole query.
C18_SplitAtLastMarker ==
    /\ parsed.by = "parser" =>
            LET mention == StripSelfMention(Trimmed(query.raw), BotUsername) IN
            mention.ok => SplitAsClaimed(mention.remaining, parsed.result)
    /\ parsed.by = "scan" => SplitAsClaimed(Trimmed(query.raw), parsed.result)

\* The parser met two markers and a handle with a full stop behind it: the
\* first marker is the text, the handle lost the full stop.
C18_Witness ==
    /\ parsed.by = "parser"
    /\ query.raw = <<"B", "@", "@", "a", ".">>
    /\ parsed.result = Parsed(<<"@">>, <<"a">>)

\* C19: under every interleaving of reveals, suspended ones included, the
\* recipient_id of a whisper never changes once it is set, and nobody but the
\* sender and the identity it is set to is shown the whisper from then on.
C19_RecipientBoundOnce ==
    [][/\ \A id \in DOMAIN whispers_cache :
            (whispers_cache[id].recipient_id # None /\ id \in DOMAIN whispers_cache') =>
                whispers_cache'[id].recipient_id = whispers_cache[id].recipient_id
       /\ (out'.op \in {"callback", "resume"} /\ out'.notice \in ReadNotices
             /\ out'.wid \in DOMAIN whispers_cache
             /\ whispers_cache[out'.wid].recipient_id # None) =>
            out'.user \in {whispers_cache[out'.wid].sender_id,
                            whispers_cache[out'.wid].recipient_id}
      ]_vars

\* C20: under every interleaving of reveals and of the sweeps they run, two
\* admitted calls of one user are at least five seconds apart, and a user never
\* admitted before, or admitted last five seconds ago or longer (the record
\* still there or swept), is admitted with remaining 0.
C20_AdmittedCallsApart ==
    [][out'.op = "callback" =>
        /\ (out'.notice # "cooldown" /\ last_admit[out'.user] >= 0) =>
                now - last_admit[out'.user] >= CooldownTicks
        /\ (last_admit[out'.user] < 0 \/ now - last_admit[out'.user] >= CooldownTicks) =>
                /\ out'.notice # "cooldown"
                /\ out'.remaining = 0
                /\ last_admit'[out'.user] = now
      ]_vars

\* User 3 was admitted, more than ten seconds went by, and the call of user 1
\* just admitted swept the record of user 3.
C20_Witness ==
    /\ out.op = "callback" /\ out.user = 1 /\ out.notice # "cooldown"
    /\ last_admit[3] >= 0
    /\ now - last_admit[3] > 2 * CooldownTicks
    /\ 3 \notin DOMAIN view_cooldowns
    /\ 1 \in DOMAIN view_cooldowns

\* C21: no whisper in the store has its sender as recipient_id, neither as
\* created nor after any reveals that write recipient_id by handle match.
C21_RecipientNeverSender ==
    \A id \in DOMAIN whispers_cache :
        whispers_cache[id].recipient_id # whispers_cache[id].sender_id

\* C22: at every instant, the instant of expiry included, a stored whisper
\* whose recipient_id is user u is in what get_whispers_for_user gives u
\* exactly if get_whisper_by_id returns it.
C22_ListAndGetAgree ==
    \A id \in DOMAIN whispers_cache : \A username \in NamesOrNone :
        LET u == whispers_cache[id].recipient_id IN
        u # None =>
            (id \in ListedIds(GetWhispersForUser(whispers_cache, u, username, now).list)
                <=> GetWhisperById(whispers_cache, id, now).found)

\* What of a whisper is fixed at creation.
Fixed(w) == [sender_id |-> w.sender_id, recipient_username |-> w.recipient_username,
             message_text |-> w.message_text, created_at |-> w.created_at,
             expires_at |-> w.expires_at]

\* C23: a stored whisper keeps its sender_id, recipient_username,
\* message_text, created_at and expires_at while it is stored; expires_at is
\* created_at plus three hours and the text is at most 1000 long; a creation
\* adds exactly one entry, under an id never given before, and leaves every
\* other entry as it is; beyond that the store only changes by a reveal
\* writing the requester into the recipient_id of the whisper revealed and by
\* entries being removed.
C23_StoreFrame ==
    [][/\ \A id \in DOMAIN whispers_cache \cap DOMAIN whispers_cache' :
            /\ Fixed(whispers_cache'[id]) = Fixed(whispers_cache[id])
            /\ whispers_cache'[id].recipient_id # whispers_cache[id].recipient_id =>
                    /\ out'.op \in {"callback", "resume"} /\ out'.wid = id
                    /\ whispers_cache'[id].recipient_id = out'.user
       /\ \A id \in DOMAIN whispers_cache' :
            /\ whispers_cache'[id].expires_at = whispers_cache'[id].created_at + ExpiryTicks
            /\ whispers_cache'[id].message_text.len <= WHISPER_MAX_LENGTH
       /\ \A id \in DOMAIN whispers_cache' \ DOMAIN whispers_cache :
            /\ out'.op = "inline" /\ out'.notice = "offered" /\ out'.wid = id
            /\ id \notin 1..issued
       /\ (out'.op = "inline" /\ out'.notice = "offered") =>
            /\ Cardinality(DOMAIN whispers_cache' \ DOMAIN whispers_cache) = 1
            /\ \A id \in DOMAIN whispers_cache :
                    id \in DOMAIN whispers_cache' /\ whispers_cache'[id] = whispers_cache[id]
       /\ (out'.op = "inline" /\ out'.notice # "offered") => whispers_cache' = whispers_cache
      ]_vars

\* A second whisper has just been created beside the first, whose
\* recipient_id a reveal by handle has written: the first is as it was.
C23_Witness ==
    /\ out.op = "inline" /\ out.notice = "offered" /\ out.wid = 2
    /\ DOMAIN whispers_cache = {1, 2}
    /\ whispers_cache[1].recipient_id = 3
    /\ whispers_cache[2].recipient_id = None
    /\ whispers_cache[2].created_at > whispers_cache[1].created_at
    /\ whispers_cache[2].message_text.len = WHISPER_MAX_LENGTH

\* C24: the handler scans first and asks the parser only if the scan found
\* nothing, and then the parser finds nothing either: for every query and
\* every username of the bot, what the handler takes from the query is what
\* the scan gives, self-mention included.
C24_HandlerParsesAsScan ==
    parsed.by = "handler" =>
        \E scanned \in {AdHocScan(query.raw)} :
            /\ parsed.result = scanned
            /\ \A h \in SelfHandles :
                IF scanned.ok
                THEN HandlerParse(query.raw, h) = scanned
                ELSE ~ParseWhisperQuery(Strip(query.raw), h).ok

\* The handler took a query the parser understands too: the parser would have
\* given the text alone, the handler kept the self-mention before it.
C24_Witness ==
    /\ parsed.by = "handler"
    /\ query.built
    /\ query.text = <<"a">>
    /\ ParseWhisperQuery(Strip(query.raw), BotUsername) = Parsed(query.text, query.handle)
    /\ parsed.result = Parsed(<<"@", "B", " ", "a">>, query.handle)

====
